---- MODULE Spec2Model ----
(***************************************************************************)
(* Model of src/inputMethod.py: class PinyinInputMethod.                   *)
(*                                                                         *)
(* Strings are sequences of Unicode code points (Python iterates a str by  *)
(* code point), so a syllable such as "yī" is <<121, 299>>.  The two       *)
(* indexes are defaultdict(list) objects: functions whose DOMAIN is the    *)
(* set of keys present, each key mapped to a sequence of entries.          *)
(***************************************************************************)
EXTENDS Integers, Sequences, FiniteSets, TLC

VARIABLES
    pc,                   \* position of the constructor / the instance's life
    ctor,                 \* outcome of PinyinInputMethod(...): running, returned, raised
    error,                \* the exception _load_data met: none or its class name
    printed,              \* what print() wrote, in order
    records,              \* the decoded records json.loads returned so far, in file order
    cur,                  \* the record whose pinyin list is being indexed
    idx,                  \* position in cur.pinyin of the next syllable to index
    count,                \* local variable count of _load_data
    pinyin_dict,          \* self.pinyin_dict
    pinyin_dict_no_tone,  \* self.pinyin_dict_no_tone
    char_data,            \* self.char_data
    call,                 \* the last lookup call made on the instance
    ret,                  \* the list of characters get_candidates returned
    ret_info,             \* the list of entries get_candidates_with_info returned
    exc,                  \* the exception that call raised: none or its class name
    npc,                  \* _remove_tone applied to a string: ready, once, twice
    nin,                  \* the string x it is applied to
    nout,                 \* _remove_tone(x)
    nout2                 \* _remove_tone(_remove_tone(x))

vars == <<pc, ctor, error, printed, records, cur, idx, count, pinyin_dict,
          pinyin_dict_no_tone, char_data, call, ret, ret_info, exc, npc, nin, nout, nout2>>

buildVars == <<pc, ctor, error, printed, records, cur, idx, count, pinyin_dict,
               pinyin_dict_no_tone, char_data, call, ret, ret_info, exc>>

normVars == <<npc, nin, nout, nout2>>

-----------------------------------------------------------------------------
(* Bounds of the model *)

\* records read plus syllables indexed (outer plus inner loop iterations of _load_data)
MaxWork == 4

MaxLen == 2

-----------------------------------------------------------------------------
(* Tone normalizer: _remove_tone *)

tone_map ==
    (257 :> 97) @@ (225 :> 97) @@ (462 :> 97) @@ (224 :> 97) @@
    (275 :> 101) @@ (233 :> 101) @@ (283 :> 101) @@ (232 :> 101) @@
    (299 :> 105) @@ (237 :> 105) @@ (464 :> 105) @@ (236 :> 105) @@
    (333 :> 111) @@ (243 :> 111) @@ (466 :> 111) @@ (242 :> 111) @@
    (363 :> 117) @@ (250 :> 117) @@ (468 :> 117) @@ (249 :> 117) @@
    (470 :> 118) @@ (472 :> 118) @@ (474 :> 118) @@ (476 :> 118) @@ (252 :> 118) @@
    (609 :> 103) @@
    (324 :> 110) @@ (328 :> 110) @@ (505 :> 110)

\* tone_map.get(char, char) with the tone of ü kept: ǖ ǘ ǚ ǜ -> ü instead of v
tone_map_get_keep_umlaut(char) ==
    IF char \in {470, 472, 474, 476} THEN 252
    ELSE IF char \in DOMAIN tone_map THEN tone_map[char] ELSE char

\* tone_map.get(char, char) with the entry for ɡ (U+0261) missing from the table
tone_map_get_without_ipa_g(char) ==
    IF char = 609 THEN char
    ELSE IF char \in DOMAIN tone_map THEN tone_map[char] ELSE char

\* tone_map.get(char, char)
tone_map_get(char) ==
    IF char \in DOMAIN tone_map THEN tone_map[char] ELSE char

\* the loop of lines 47-50: result += tone_map.get(char, char) for each char
RECURSIVE _remove_tone(_)
_remove_tone(pinyin) ==
    IF pinyin = <<>> THEN <<>>
    ELSE <<tone_map_get(Head(pinyin))>> \o _remove_tone(Tail(pinyin))

-----------------------------------------------------------------------------
(* Input domain: the lines of the JSONL file and the query strings.         *)
(* A line is taken as what lines 65-74 make of it: blank after strip(), not *)
(* decodable by json.loads (after the trailing comma is cut), or decoded to *)
(* a record, which may lack the keys 'char' or 'pinyin'.                    *)

yi1 == <<121, 299>>     \* "yī"
yi2 == <<121, 237>>     \* "yí"
yi0 == <<121, 105>>     \* "yi"
nv3 == <<110, 474>>     \* "nǚ"
nv0 == <<110, 118>>     \* "nv"
wu3 == <<119, 468>>     \* "wǔ"

\* the syllables records are drawn from: two share a tone-free form, one is that form
CorpusSyllables == {yi1, yi0, nv3}

\* the strings lookup calls are made with
QuerySyllables == CorpusSyllables

\* the strings the lookup operators are evaluated on once the index is built
ProbeSyllables == CorpusSyllables \cup {yi2, nv0, wu3}

Chars == {<<19968>>, <<34915>>}     \* "一", "衣"

\* data.get('frequency', 999): the value used when the key is absent
DefaultFrequency == 999

\* marks a record without a 'frequency' key
NoFrequency == -1

FrequencyFields == {0, NoFrequency}

PinyinLists(n) == UNION {[1..m -> CorpusSyllables] : m \in 0..n}

\* the objects json.loads can return for a well-formed record line
RecordLines(n) ==
    [char : Chars, pinyin : PinyinLists(n), frequency : FrequencyFields]

NoRecord == [char |-> <<>>, pinyin |-> <<>>, frequency |-> NoFrequency]

\* the loop iterations a sequence of records costs: one per record, one per syllable
Work(rs) ==
    LET RECURSIVE Sum(_)
        Sum(s) == IF s = <<>> THEN 0 ELSE 1 + Len(Head(s).pinyin) + Sum(Tail(s))
    IN Sum(rs)

-----------------------------------------------------------------------------
(* Python containers *)

EmptyDict == <<>>

Message(text, args) == [text |-> text, args |-> args]

\* d[k].append(e) on a defaultdict(list): the list is created on first use
defaultdict_append(d, k, e) ==
    IF k \in DOMAIN d THEN [d EXCEPT ![k] = Append(@, e)]
    ELSE d @@ (k :> <<e>>)

\* d[k] = v on a dict
dict_setitem(d, k, v) ==
    IF k \in DOMAIN d THEN [d EXCEPT ![k] = v] ELSE d @@ (k :> v)

\* d[k] on a plain dict: a missing key raises KeyError
dict_getitem(d, k, default) ==
    IF k \in DOMAIN d THEN [exc |-> "none", value |-> d[k], dict |-> d]
    ELSE [exc |-> "KeyError", value |-> <<>>, dict |-> d]

\* d[k] on a defaultdict(list): a missing key is inserted with an empty list
defaultdict_getitem(d, k, default) ==
    IF k \in DOMAIN d THEN [exc |-> "none", value |-> d[k], dict |-> d]
    ELSE [exc |-> "none", value |-> <<>>, dict |-> d @@ (k :> <<>>)]

\* d.get(k, default): the value and the mapping after the call; get never
\* calls __missing__, so the mapping is left as it was
dict_get(d, k, default) ==
    IF k \in DOMAIN d THEN [exc |-> "none", value |-> d[k], dict |-> d]
    ELSE [exc |-> "none", value |-> default, dict |-> d]

\* one insertion of a stable sort: e goes after every entry whose key is <= its own
RECURSIVE insert_sorted(_, _)
insert_sorted(s, e) ==
    IF s = <<>> THEN <<e>>
    ELSE IF Head(s).frequency <= e.frequency
         THEN <<Head(s)>> \o insert_sorted(Tail(s), e)
         ELSE <<e>> \o s

\* list.sort(key=lambda x: x['frequency']): ascending and stable
RECURSIVE list_sort(_)
list_sort(s) ==
    IF s = <<>> THEN <<>>
    ELSE insert_sorted(list_sort(SubSeq(s, 1, Len(s) - 1)), s[Len(s)])

\* for py in d: d[py].sort(key=...)
sort_all(d) == [k \in DOMAIN d |-> list_sort(d[k])]

-----------------------------------------------------------------------------
(* __init__ and _load_data *)

\* the instance at line 25: its three attributes are empty, _load_data is about to run
Init ==
    /\ pc = "load"
    /\ ctor = "running"
    /\ error = "none"
    /\ printed = <<>>
    /\ records = <<>>
    /\ cur = NoRecord
    /\ idx = 1
    /\ count = 0
    /\ pinyin_dict = EmptyDict
    /\ pinyin_dict_no_tone = EmptyDict
    /\ char_data = EmptyDict
    /\ call = [op |-> "none", pinyin |-> <<>>, with_tone |-> FALSE]
    /\ ret = <<>>
    /\ ret_info = <<>>
    /\ exc = "none"
    /\ npc = "idle"
    /\ nin = <<>>
    /\ nout = <<>>
    /\ nout2 = <<>>

\* open() succeeds
OpenFile ==
    /\ pc = "load"
    /\ printed' = Append(printed, Message("loading", <<>>))
    /\ pc' = "read"
    /\ UNCHANGED <<ctor, error, records, cur, idx, count, pinyin_dict,
                   pinyin_dict_no_tone, char_data, call, ret, ret_info, exc>>
    /\ UNCHANGED normVars

\* open() raises FileNotFoundError: caught, a message is printed, __init__ returns
OpenMissingFile ==
    /\ pc = "load"
    /\ printed' = printed \o <<Message("loading", <<>>), Message("file_not_found", <<>>)>>
    /\ error' = "FileNotFoundError"
    /\ pc' = "done"
    /\ ctor' = "returned"
    /\ UNCHANGED <<records, cur, idx, count, pinyin_dict,
                   pinyin_dict_no_tone, char_data, call, ret, ret_info, exc>>
    /\ UNCHANGED normVars

\* a line that is empty after strip(): continue
ReadBlankLine ==
    /\ pc = "read"
    /\ UNCHANGED buildVars
    /\ UNCHANGED normVars

\* json.loads raises JSONDecodeError: caught, a message is printed, __init__ returns
ReadMalformedLine ==
    /\ pc = "read"
    /\ printed' = Append(printed, Message("json_error", <<>>))
    /\ error' = "JSONDecodeError"
    /\ pc' = "done"
    /\ ctor' = "returned"
    /\ UNCHANGED <<records, cur, idx, count, pinyin_dict,
                   pinyin_dict_no_tone, char_data, call, ret, ret_info, exc>>
    /\ UNCHANGED normVars

\* data['char'] or data['pinyin'] raises KeyError: not caught, __init__ raises
ReadRecordMissingKey ==
    /\ pc = "read"
    /\ error' = "KeyError"
    /\ pc' = "done"
    /\ ctor' = "raised"
    /\ UNCHANGED <<printed, records, cur, idx, count, pinyin_dict,
                   pinyin_dict_no_tone, char_data, call, ret, ret_info, exc>>
    /\ UNCHANGED normVars

\* the frequency of a decoded record: data.get('frequency', 999)
frequency_of(data) ==
    IF data.frequency = NoFrequency THEN DefaultFrequency ELSE data.frequency

\* a well-formed record line: lines 74-80, up to the loop over its pinyin list
ReadRecord ==
    /\ pc = "read"
    /\ Work(records) < MaxWork
    /\ \E data \in RecordLines(MaxWork - Work(records) - 1) :
          /\ records' = Append(records, data)
          /\ char_data' = dict_setitem(char_data, data.char, data)
          /\ cur' = data
          /\ idx' = 1
          /\ IF data.pinyin = <<>>
             THEN /\ count' = count + 1
                  /\ pc' = "read"
             ELSE /\ count' = count
                  /\ pc' = "index"
    /\ UNCHANGED <<ctor, error, printed, pinyin_dict, pinyin_dict_no_tone,
                   call, ret, ret_info, exc>>
    /\ UNCHANGED normVars

\* the key under which the tone-free index files a syllable, with the
\* normalization left out
no_tone_key_verbatim(py) == py

\* the key under which the tone-free index files a syllable
no_tone_key(py) == _remove_tone(py)

\* one iteration of "for py in pinyins", lines 83-96; after the last one, count += 1
IndexPinyin ==
    /\ pc = "index"
    /\ idx <= Len(cur.pinyin)
    /\ LET py == cur.pinyin[idx]
           char == cur.char
           frequency == frequency_of(cur)
       IN /\ pinyin_dict' = defaultdict_append(pinyin_dict, py,
                                [char |-> char, frequency |-> frequency])
          /\ pinyin_dict_no_tone' = defaultdict_append(pinyin_dict_no_tone,
                                no_tone_key(py),
                                [char |-> char, frequency |-> frequency, pinyin |-> py])
    /\ idx' = idx + 1
    /\ IF idx = Len(cur.pinyin)
       THEN /\ count' = count + 1
            /\ pc' = "read"
       ELSE /\ count' = count
            /\ pc' = "index"
    /\ UNCHANGED <<ctor, error, printed, records, cur, char_data, call, ret, ret_info, exc>>
    /\ UNCHANGED normVars

\* the file is exhausted: the loop of lines 101-102 sorts every exact list
SortPinyinDict ==
    /\ pc = "read"
    /\ pinyin_dict' = sort_all(pinyin_dict)
    /\ pc' = "sort_no_tone"
    /\ UNCHANGED <<ctor, error, printed, records, cur, idx, count,
                   pinyin_dict_no_tone, char_data, call, ret, ret_info, exc>>
    /\ UNCHANGED normVars

\* the loop of lines 104-105, the closing messages, and the return of __init__
SortPinyinDictNoTone ==
    /\ pc = "sort_no_tone"
    /\ pinyin_dict_no_tone' = sort_all(pinyin_dict_no_tone)
    /\ printed' = Append(printed, Message("loaded",
                     <<count, Cardinality(DOMAIN pinyin_dict),
                       Cardinality(DOMAIN pinyin_dict_no_tone)>>))
    /\ pc' = "done"
    /\ ctor' = "returned"
    /\ UNCHANGED <<error, records, cur, idx, count, pinyin_dict,
                   char_data, call, ret, ret_info, exc>>
    /\ UNCHANGED normVars

-----------------------------------------------------------------------------
(* Lookups on the instance the constructor returned *)

\* the query string looked up as it is, in either mode
query_key_verbatim(pinyin, with_tone) == pinyin

\* the query string normalized in either mode
query_key_normalized(pinyin, with_tone) == _remove_tone(pinyin)

\* the key a query resolves to: verbatim when with_tone, else _remove_tone(pinyin)
query_key(pinyin, with_tone) ==
    IF with_tone THEN pinyin ELSE _remove_tone(pinyin)

\* the branch of lines 127-132 (and 147-151): the mapping consulted and the list found
lookup(pinyin, with_tone) ==
    IF with_tone
    THEN dict_get(pinyin_dict, query_key(pinyin, with_tone), <<>>)
    ELSE dict_get(pinyin_dict_no_tone, query_key(pinyin, with_tone), <<>>)

\* [item['char'] for item in candidates]
chars_of(candidates) == [i \in 1..Len(candidates) |-> candidates[i].char]

\* the list get_candidates returns
get_candidates(pinyin, with_tone) == chars_of(lookup(pinyin, with_tone).value)

\* the list get_candidates_with_info returns
get_candidates_with_info(pinyin, with_tone) == lookup(pinyin, with_tone).value

GetCandidates ==
    /\ pc = "done"
    /\ ctor = "returned"
    /\ \E pinyin \in QuerySyllables, with_tone \in BOOLEAN :
          LET r == lookup(pinyin, with_tone)
          IN /\ call' = [op |-> "get_candidates", pinyin |-> pinyin,
                         with_tone |-> with_tone]
             /\ exc' = r.exc
             /\ ret' = IF r.exc = "none" THEN chars_of(r.value) ELSE <<>>
             /\ ret_info' = <<>>
             /\ pinyin_dict' = IF with_tone THEN r.dict ELSE pinyin_dict
             /\ pinyin_dict_no_tone' = IF with_tone THEN pinyin_dict_no_tone ELSE r.dict
    /\ UNCHANGED <<pc, ctor, error, printed, records, cur, idx, count, char_data>>
    /\ UNCHANGED normVars

GetCandidatesWithInfo ==
    /\ pc = "done"
    /\ ctor = "returned"
    /\ \E pinyin \in QuerySyllables, with_tone \in BOOLEAN :
          LET r == lookup(pinyin, with_tone)
          IN /\ call' = [op |-> "get_candidates_with_info", pinyin |-> pinyin,
                         with_tone |-> with_tone]
             /\ exc' = r.exc
             /\ ret_info' = IF r.exc = "none" THEN r.value ELSE <<>>
             /\ ret' = <<>>
             /\ pinyin_dict' = IF with_tone THEN r.dict ELSE pinyin_dict
             /\ pinyin_dict_no_tone' = IF with_tone THEN pinyin_dict_no_tone ELSE r.dict
    /\ UNCHANGED <<pc, ctor, error, printed, records, cur, idx, count, char_data>>
    /\ UNCHANGED normVars

Next ==
    \/ OpenFile
    \/ OpenMissingFile
    \/ ReadBlankLine
    \/ ReadMalformedLine
    \/ ReadRecordMissingKey
    \/ ReadRecord
    \/ IndexPinyin
    \/ SortPinyinDict
    \/ SortPinyinDictNoTone
    \/ GetCandidates
    \/ GetCandidatesWithInfo

Spec == Init /\ [][Next]_vars

-----------------------------------------------------------------------------
(* _remove_tone applied to bounded strings *)

\* code points: every key and value of tone_map, and y, 1, Ā, ê, ḿ
Alphabet ==
    DOMAIN tone_map \cup {tone_map[c] : c \in DOMAIN tone_map}
                    \cup {121, 49, 256, 234, 7743}

Strings(n) == UNION {[1..m -> Alphabet] : m \in 0..n}

InitNorm ==
    /\ pc = "load"
    /\ ctor = "running"
    /\ error = "none"
    /\ printed = <<>>
    /\ records = <<>>
    /\ cur = NoRecord
    /\ idx = 1
    /\ count = 0
    /\ pinyin_dict = EmptyDict
    /\ pinyin_dict_no_tone = EmptyDict
    /\ char_data = EmptyDict
    /\ call = [op |-> "none", pinyin |-> <<>>, with_tone |-> FALSE]
    /\ ret = <<>>
    /\ ret_info = <<>>
    /\ exc = "none"
    /\ npc = "ready"
    /\ nin \in Strings(MaxLen)
    /\ nout = <<>>
    /\ nout2 = <<>>

\* _remove_tone(x)
RemoveTone ==
    /\ npc = "ready"
    /\ nout' = _remove_tone(nin)
    /\ npc' = "once"
    /\ UNCHANGED <<nin, nout2>>
    /\ UNCHANGED buildVars

\* _remove_tone applied to the result of the first application
RemoveToneAgain ==
    /\ npc = "once"
    /\ nout2' = _remove_tone(nout)
    /\ npc' = "twice"
    /\ UNCHANGED <<nin, nout>>
    /\ UNCHANGED buildVars

NextNorm ==
    \/ RemoveTone
    \/ RemoveToneAgain

SpecNorm == InitNorm /\ [][NextNorm]_vars

-----------------------------------------------------------------------------
(* Properties of _remove_tone, under SpecNorm *)

\* C8: _remove_tone is idempotent: applying it to its own result returns that
\* result unchanged, _remove_tone(_remove_tone(x)) = _remove_tone(x).
C8_RemoveToneIdempotent ==
    npc = "twice" => nout2 = nout

\* an input with a toned ü and a second code point, normalized twice
C8_Witness ==
    /\ npc = "twice"
    /\ Len(nin) >= 2
    /\ \E i \in 1..Len(nin) : nin[i] \in {470, 472, 474, 476}
    /\ nout # nin

\* the code point the claim C9 gives for each input code point
C9_Expected(c) ==
    IF c \in {257, 225, 462, 224} THEN 97             \* ā á ǎ à -> a
    ELSE IF c \in {275, 233, 283, 232} THEN 101       \* ē é ě è -> e
    ELSE IF c \in {299, 237, 464, 236} THEN 105       \* ī í ǐ ì -> i
    ELSE IF c \in {333, 243, 466, 242} THEN 111       \* ō ó ǒ ò -> o
    ELSE IF c \in {363, 250, 468, 249} THEN 117       \* ū ú ǔ ù -> u
    ELSE IF c \in {470, 472, 474, 476, 252} THEN 118  \* ǖ ǘ ǚ ǜ ü -> v
    ELSE IF c = 609 THEN 103                          \* ɡ -> g
    ELSE IF c \in {324, 328, 505} THEN 110            \* ń ň ǹ -> n
    ELSE c

\* C9: _remove_tone maps position by position: the result has the length of
\* the input, a toned a/e/i/o/u becomes its bare vowel, ǖ ǘ ǚ ǜ ü become v,
\* ɡ becomes g, ń ň ǹ become n, every other code point stays where it was.
C9_RemoveTonePositional ==
    npc \in {"once", "twice"} =>
        /\ Len(nout) = Len(nin)
        /\ \A i \in 1..Len(nin) : nout[i] = C9_Expected(nin[i])

\* an input holding ɡ next to a code point the table does not map
C9_Witness ==
    /\ npc = "once"
    /\ Len(nin) >= 2
    /\ \E i \in 1..Len(nin) : nin[i] = 609
    /\ \E i \in 1..Len(nin) : nin[i] \notin DOMAIN tone_map /\ nout[i] = nin[i]

-----------------------------------------------------------------------------
(* Invariant of the two mappings, under Spec *)

\* the instance exists and the constructor has returned it
Returned == pc = "done" /\ ctor = "returned"

\* the constructor has just returned the instance: no lookup was made yet
Built == Returned /\ call.op = "none"

\* number of entries in all lists of a mapping
RECURSIVE TotalPostings(_)
TotalPostings(d) ==
    IF DOMAIN d = {} THEN 0
    ELSE LET k == CHOOSE x \in DOMAIN d : TRUE
         IN Len(d[k]) + TotalPostings([x \in DOMAIN d \ {k} |-> d[x]])

\* C10: in every state during and after the build, each entry under key k of
\* pinyin_dict_no_tone carries a 'pinyin' value p with _remove_tone(p) = k, the
\* same (char, frequency) pair is in pinyin_dict[p], and the two mappings hold
\* the same total number of entries.
C10_NoToneEntriesMirrorExact ==
    /\ \A k \in DOMAIN pinyin_dict_no_tone :
          \A i \in 1..Len(pinyin_dict_no_tone[k]) :
             LET e == pinyin_dict_no_tone[k][i]
             IN /\ _remove_tone(e.pinyin) = k
                /\ e.pinyin \in DOMAIN pinyin_dict
                /\ \E j \in 1..Len(pinyin_dict[e.pinyin]) :
                      pinyin_dict[e.pinyin][j] =
                          [char |-> e.char, frequency |-> e.frequency]
    /\ TotalPostings(pinyin_dict) = TotalPostings(pinyin_dict_no_tone)

\* in the middle of a record's pinyin list, two toned keys sharing one tone-free key
C10_Witness ==
    /\ pc = "index"
    /\ idx > 1
    /\ Cardinality(DOMAIN pinyin_dict) >= 2
    /\ Cardinality(DOMAIN pinyin_dict_no_tone) = 1

-----------------------------------------------------------------------------
(* Properties of build and lookup, under Spec *)

\* the (char, frequency, syllable) triples of the records read, in file order and,
\* within a record, in the order of its pinyin list
RECURSIVE Ingested(_)
Ingested(rs) ==
    IF rs = <<>> THEN <<>>
    ELSE LET r == rs[Len(rs)]
         IN Ingested(SubSeq(rs, 1, Len(rs) - 1)) \o
            [j \in 1..Len(r.pinyin) |->
                [char |-> r.char, frequency |-> frequency_of(r), pinyin |-> r.pinyin[j]]]

\* how often x occurs in the sequence s
Occurrences(s, x) == Cardinality({i \in 1..Len(s) : s[i] = x})

\* how often char c occurs in the tone-sensitive results of all the toned keys
\* of the corpus in ts
RECURSIVE ExactOccurrences(_, _)
ExactOccurrences(ts, c) ==
    IF ts = {} THEN 0
    ELSE LET t == CHOOSE x \in ts : TRUE
         IN Occurrences(get_candidates(t, TRUE), c) + ExactOccurrences(ts \ {t}, c)

\* the distinct toned syllables of the corpus that normalize like s
SameToneFree(s) ==
    {t \in DOMAIN pinyin_dict : _remove_tone(t) = _remove_tone(s)}

\* C1: after a build, for every query syllable s the tone-insensitive result
\* holds each character exactly as often as the tone-sensitive results of all
\* distinct corpus syllables t with _remove_tone(t) = _remove_tone(s) taken
\* together: once per reading listed in a record (a reading is an entry of the
\* record's pinyin list).  The list a tone-insensitive call returned is that
\* result.
C1_ToneFreeIsUnionOfExact ==
    /\ Built =>
          \A s \in ProbeSyllables : \A c \in Chars :
             /\ Occurrences(get_candidates(s, FALSE), c)
                   = ExactOccurrences(SameToneFree(s), c)
             /\ Occurrences(get_candidates(s, FALSE), c)
                   = Cardinality({i \in 1..Len(Ingested(records)) :
                         /\ Ingested(records)[i].char = c
                         /\ _remove_tone(Ingested(records)[i].pinyin)
                               = _remove_tone(s)})
    /\ (Returned /\ call.op = "get_candidates" /\ ~call.with_tone) =>
          \A c \in Chars :
             Occurrences(ret, c) = ExactOccurrences(SameToneFree(call.pinyin), c)

\* a tone-insensitive call with a toned query returned a character twice, once
\* for each of two different toned readings filed under the same tone-free key
C1_Witness ==
    /\ Returned
    /\ error = "none"
    /\ call.op = "get_candidates"
    /\ ~call.with_tone
    /\ _remove_tone(call.pinyin) # call.pinyin
    /\ Cardinality(SameToneFree(call.pinyin)) >= 2
    /\ \E c \in Chars : Occurrences(ret, c) >= 2

\* the set of elements of a sequence
Range(s) == {s[i] : i \in 1..Len(s)}

\* the characters of the records whose pinyin list holds s verbatim
CharsReading(s) ==
    {records[i].char : i \in {n \in 1..Len(records) : s \in Range(records[n].pinyin)}}

\* C3: after a build, for every record and every syllable s of its pinyin list
\* the record's character is in get_candidates(s, with_tone=True); s is matched
\* verbatim, so the result for a query holds only characters of records that
\* list that very string.
C3_ExactLookupVerbatim ==
    /\ Built =>
          /\ \A i \in 1..Len(records) : \A j \in 1..Len(records[i].pinyin) :
                records[i].char \in Range(get_candidates(records[i].pinyin[j], TRUE))
          /\ \A s \in ProbeSyllables :
                Range(get_candidates(s, TRUE)) = CharsReading(s)
    /\ (Returned /\ call.op = "get_candidates" /\ call.with_tone) =>
          Range(ret) = CharsReading(call.pinyin)

\* a tone-sensitive call returned characters, and fewer than the tone-insensitive
\* lookup of the same string finds: a reading differing by tone was not returned
C3_Witness ==
    /\ Returned
    /\ call.op = "get_candidates"
    /\ call.with_tone
    /\ ret # <<>>
    /\ Len(get_candidates(call.pinyin, FALSE)) > Len(ret)

\* the mapping a call consults
consulted(with_tone) == IF with_tone THEN pinyin_dict ELSE pinyin_dict_no_tone

\* the key of the last call is absent from the mapping it consulted
KeyAbsent ==
    query_key(call.pinyin, call.with_tone) \notin DOMAIN consulted(call.with_tone)

\* C6: once the index is built, no lookup call changes it: the key sets of both
\* mappings and the contents and order of every list stay as they were.
C6_LookupsLeaveIndexUnchanged ==
    [][pc = "done" => UNCHANGED <<pinyin_dict, pinyin_dict_no_tone>>]_vars

\* a detailed lookup was made for a key that a non-empty index does not hold
C6_Witness ==
    /\ Returned
    /\ call.op = "get_candidates_with_info"
    /\ KeyAbsent
    /\ ret_info = <<>>
    /\ pinyin_dict # EmptyDict

\* C7: a lookup never raises, and when its key (verbatim, or normalized in the
\* tone-insensitive mode) is absent from the mapping it returns the empty list.
C7_AbsentKeyReturnsEmpty ==
    call.op # "none" =>
        /\ exc = "none"
        /\ KeyAbsent => (ret = <<>> /\ ret_info = <<>>)

\* a tone-insensitive lookup was made for a key that a non-empty index does not hold
C7_Witness ==
    /\ Returned
    /\ call.op = "get_candidates"
    /\ ~call.with_tone
    /\ KeyAbsent
    /\ pinyin_dict_no_tone # EmptyDict
    /\ ret = <<>>

-----------------------------------------------------------------------------
(* Claims the code does not meet *)

\* the frequencies of a list never decrease
NonDecreasing(s) ==
    \A i \in 1..Len(s) - 1 : s[i].frequency <= s[i + 1].frequency

\* the (char, frequency) pairs of frequency f ingested under the key of the
\* last call, in ingestion order
IngestedUnderKey(f) ==
    LET key == query_key(call.pinyin, call.with_tone)
        Filed(e) == /\ e.frequency = f
                    /\ IF call.with_tone THEN e.pinyin = key
                       ELSE _remove_tone(e.pinyin) = key
        es == SelectSeq(Ingested(records), Filed)
    IN [i \in 1..Len(es) |-> [char |-> es[i].char, frequency |-> es[i].frequency]]

\* the (char, frequency) pairs of frequency f in the returned list, in list order
ReturnedWithFrequency(f) ==
    LET Has(e) == e.frequency = f
        es == SelectSeq(ret_info, Has)
    IN [i \in 1..Len(es) |-> [char |-> es[i].char, frequency |-> es[i].frequency]]

\* C2: every list get_candidates_with_info returns, for any syllable and either
\* tone mode, on any instance the constructor returned, has non-decreasing
\* frequencies, and its entries of equal frequency are in ingestion order.
C2_ReturnedListsSorted ==
    (Returned /\ call.op = "get_candidates_with_info") =>
        /\ NonDecreasing(ret_info)
        /\ \A f \in {0, DefaultFrequency} :
              ReturnedWithFrequency(f) = IngestedUnderKey(f)

\* the ordering of C2 restricted to instances whose load ran to its end: it
\* holds there, so C2 fails only through the instances returned after an error
SortedAfterCompleteLoad ==
    (Returned /\ error = "none" /\ call.op = "get_candidates_with_info") =>
        /\ NonDecreasing(ret_info)
        /\ \A f \in {0, DefaultFrequency} :
              ReturnedWithFrequency(f) = IngestedUnderKey(f)

\* C4: if a line fails JSON decoding, construction ends in an explicit failure
\* and no instance can be queried afterwards.
C4_MalformedLineFailsConstruction ==
    error = "JSONDecodeError" =>
        /\ ctor # "returned"
        /\ call.op = "none"

\* the attributes of the instance
Instance == <<pinyin_dict, pinyin_dict_no_tone, char_data>>

\* the attributes of an instance built from a file without records
EmptyBuildInstance == <<EmptyDict, EmptyDict, EmptyDict>>

\* C5: when the file cannot be opened, what the caller of the constructor gets
\* differs from a successful build over an empty record set: it is not handed
\* an instance whose attributes are those of an empty build.
C5_MissingFileIsDistinguishable ==
    (pc = "done" /\ error = "FileNotFoundError") =>
        ~(ctor = "returned" /\ Instance = EmptyBuildInstance)

====
